---- MODULE Spec2Model ----
(***************************************************************************)
(* A model of guessit/matcher.py: the bracket tokenizer                    *)
(* (find_first_level_groups_span, split_on_groups,                         *)
(* find_first_level_groups) and the per-group rule passes of               *)
(* IterativeMatcher.__init__.                                              *)
(*                                                                         *)
(* A Python string is a sequence of one-character strings.  Spans and      *)
(* indices keep Python's 0-based, half-open convention: the character at   *)
(* Python index p of s is s[p+1].                                          *)
(***************************************************************************)
EXTENDS Integers, Sequences, FiniteSets, TLC

VARIABLES
    \* find_first_level_groups(string, enclosing, blank_sep)
    string,        \* the argument string
    enclosing,     \* <<opening, closing>>
    blank_sep,     \* the blank_sep argument
    i,             \* loop index of `for i, c in enumerate(string)`
    depth,         \* stack of indices where a group was opened
    groups,        \* the span list built by find_first_level_groups_span
    pieces,        \* the list find_first_level_groups returns
    tpc,           \* position: "scan", "returned", "done"
    \* IterativeMatcher.__init__
    explicit_group, \* the explicit group being matched (line 271)
    current,       \* the working string (line 275)
    regions,       \* list of (start, end) of matched regions (line 277)
    spans,         \* the span argument of each update_found call, as matched
    result,        \* list of found metadata (line 250)
    entry,         \* pathpart[gidx] as stored by line 367
    pidx,          \* index of the path part in match_tree (line 270)
    gidx,          \* index of the explicit group in its path part (line 271)
    ngroups,       \* explicit groups fully processed so far
    raised,        \* the exception that ended the run, "" if none
    pc             \* position in the loop body of lines 271-369

tokvars == <<string, enclosing, blank_sep, i, depth, groups, pieces, tpc>>

matchvars == <<explicit_group, current, regions, spans, result, entry,
               pidx, gidx, ngroups, raised, pc>>

vars == <<tokvars, matchvars>>

----------------------------------------------------------------------------
(* Bounds of the model. *)

\* longest enumerated argument string of the tokenizer
MaxLen == 5

\* most vocabulary tokens in an explicit group of the one-group runs
MaxTokens == 3

\* most vocabulary tokens in an explicit group of the several-group runs
MaxRunTokens == 1

\* most explicit groups in a several-group run
MaxGroups == 2

\* longest enumerated argument string of split_explicit_groups
MaxExplicitLen == 5

----------------------------------------------------------------------------
(* Python helpers. *)

\* line 32: deleted = '_'
deleted == "_"

Min(a, b) == IF a < b THEN a ELSE b

Max(a, b) == IF a > b THEN a ELSE b

\* Python's s[a:b], with negative indices counted from the end and
\* out-of-range indices clamped.
Slice(s, a, b) ==
    LET n  == Len(s)
        lo == IF a < 0 THEN Max(a + n, 0) ELSE Min(a, n)
        hi == IF b < 0 THEN Max(b + n, 0) ELSE Min(b, n)
    IN  IF lo < hi THEN SubSeq(s, lo + 1, hi) ELSE <<>>

\* Python's s[p] for an index the caller knows to be in range or negative.
At(s, p) == IF p < 0 THEN s[Len(s) + p + 1] ELSE s[p + 1]

\* c * n
Repeat(c, n) == [k \in 1..Max(n, 0) |-> c]

RECURSIVE SortedSeq(_)
\* sorted(set(...)): the elements of a finite set of integers, ascending
SortedSeq(S) ==
    IF S = {} THEN <<>>
    ELSE LET m == CHOOSE x \in S : \A y \in S : x <= y
         IN  <<m>> \o SortedSeq(S \ {m})

RECURSIVE Concat(_)
\* ''.join(list)
Concat(l) == IF l = <<>> THEN <<>> ELSE Head(l) \o Concat(Tail(l))

----------------------------------------------------------------------------
(* find_first_level_groups_span, lines 42-77. *)

\* A variant of the loop body that reports a span at every pop, whether or
\* not the stack was emptied by it.
ScanStepEveryPop(d, r, idx, c, enc) ==
    IF c = enc[1] THEN [depth |-> Append(d, idx), result |-> r]
    ELSE IF c = enc[2] THEN
        IF d # <<>>
        THEN [depth  |-> SubSeq(d, 1, Len(d) - 1),
              result |-> Append(r, <<d[Len(d)], idx + 1>>)]
        ELSE [depth |-> d, result |-> r]
    ELSE [depth |-> d, result |-> r]

\* A variant that treats a closer with nothing open as an error and starts
\* over with an empty result.
ScanStepStrict(d, r, idx, c, enc) ==
    IF c = enc[1] THEN [depth |-> Append(d, idx), result |-> r]
    ELSE IF c = enc[2] THEN
        IF d # <<>>
        THEN LET start == d[Len(d)]
                 rest  == SubSeq(d, 1, Len(d) - 1)
             IN  [depth  |-> rest,
                  result |-> IF rest = <<>>
                             THEN Append(r, <<start, idx + 1>>)
                             ELSE r]
        ELSE [depth |-> <<idx>>, result |-> r]
    ELSE [depth |-> d, result |-> r]

\* One iteration of the loop (lines 63-75) on character c at index idx.
ScanStep(d, r, idx, c, enc) ==
    IF c = enc[1] THEN [depth |-> Append(d, idx), result |-> r]
    ELSE IF c = enc[2] THEN
        IF d # <<>>
        THEN LET start == d[Len(d)]
                 rest  == SubSeq(d, 1, Len(d) - 1)
             IN  [depth  |-> rest,
                  result |-> IF rest = <<>>
                             THEN Append(r, <<start, idx + 1>>)
                             ELSE r]
        \* except IndexError: pass
        ELSE [depth |-> d, result |-> r]
    ELSE [depth |-> d, result |-> r]

RECURSIVE ScanPrefix(_, _, _)
\* The loop's state after the first n characters of s.
ScanPrefix(s, enc, n) ==
    IF n = 0 THEN [depth |-> <<>>, result |-> <<>>]
    ELSE LET st == ScanPrefix(s, enc, n - 1)
         IN  ScanStep(st.depth, st.result, n - 1, s[n], enc)

find_first_level_groups_span(s, enc) == ScanPrefix(s, enc, Len(s)).result

----------------------------------------------------------------------------
(* split_on_groups, lines 80-94. *)

\* reduce(lambda l, x: l + list(x), groups, []) as a set
Flatten(gs) == {gs[k][1] : k \in 1..Len(gs)} \cup {gs[k][2] : k \in 1..Len(gs)}

Boundaries(s, gs) ==
    LET b0 == SortedSeq(Flatten(gs))
        b1 == IF b0[1] # 0 THEN <<0>> \o b0 ELSE b0
    IN  IF b1[Len(b1)] # Len(s) THEN Append(b1, Len(s)) ELSE b1

\* A variant that forgets to close the last fragment at len(string).
split_on_groups_no_tail(s, gs) ==
    IF gs = <<>> THEN <<s>>
    ELSE LET b0  == SortedSeq(Flatten(gs))
             b   == IF b0[1] # 0 THEN <<0>> \o b0 ELSE b0
             raw == [k \in 1..(Len(b) - 1) |-> Slice(s, b[k], b[k + 1])]
         IN  SelectSeq(raw, LAMBDA g : g # <<>>)

split_on_groups(s, gs) ==
    IF gs = <<>> THEN <<s>>
    ELSE LET b   == Boundaries(s, gs)
             raw == [k \in 1..(Len(b) - 1) |-> Slice(s, b[k], b[k + 1])]
         IN  SelectSeq(raw, LAMBDA g : g # <<>>)

----------------------------------------------------------------------------
(* str_replace and find_first_level_groups, lines 96-134. *)

str_replace(s, pos, c) == Slice(s, 0, pos) \o <<c>> \o Slice(s, pos + 1, Len(s))

RECURSIVE BlankDelimiters(_, _)
\* lines 130-132
BlankDelimiters(s, gs) ==
    IF gs = <<>> THEN s
    ELSE LET g  == Head(gs)
             s1 == str_replace(s, g[1], deleted)
             s2 == str_replace(s1, g[2] - 1, deleted)
         IN  BlankDelimiters(s2, Tail(gs))

find_first_level_groups(s, enc, blank) ==
    LET gs == find_first_level_groups_span(s, enc)
    IN  split_on_groups(IF blank THEN BlankDelimiters(s, gs) ELSE s, gs)

----------------------------------------------------------------------------
(* Inputs of the tokenizer. *)

TokAlphabet == {"(", ")", "[", "]", "a"}

Enclosings == {<<"(", ")">>, <<"[", "]">>, <<"{", "}">>}

StringsUpTo(A, n) == UNION {[1..k -> A] : k \in 0..n}

\* The arguments of the docstring examples, lines 48-58 and 109-125.
DocExamples ==
    { <<"a", "b", "c", "d">>,
      <<"a", "b", "c", "(", "d", "e", ")", "f", "g", "h">>,
      <<"(", "a", "b", "(", "c", ")", "(", "d", ")", ")">>,
      <<"a", "b", "[", "c", "]", "d", "e", "[", "f", "]", "g", "h", "(", "i", ")">>,
      <<"(", ")", "[", "]", "(", ")">> }

TokStrings == StringsUpTo(TokAlphabet, MaxLen) \cup DocExamples

----------------------------------------------------------------------------
(* The tokenizer as a state machine. *)

InitGroups ==
    /\ string \in TokStrings
    /\ enclosing \in Enclosings
    /\ blank_sep \in BOOLEAN
    /\ i = 0
    /\ depth = <<>>
    /\ groups = <<>>
    /\ pieces = <<>>
    /\ tpc = "scan"
    /\ explicit_group = <<>>
    /\ current = <<>>
    /\ regions = <<>>
    /\ spans = <<>>
    /\ result = <<>>
    /\ entry = <<>>
    /\ pidx = 0
    /\ gidx = 0
    /\ ngroups = 0
    /\ raised = ""
    /\ pc = "idle"

\* lines 63-75: one iteration of the loop
Scan ==
    /\ tpc = "scan"
    /\ i < Len(string)
    /\ LET st == ScanStep(depth, groups, i, string[i + 1], enclosing)
       IN  /\ depth' = st.depth
           /\ groups' = st.result
    /\ i' = i + 1
    /\ UNCHANGED <<string, enclosing, blank_sep, pieces, tpc, matchvars>>

\* line 77: return result
ReturnSpans ==
    /\ tpc = "scan"
    /\ i = Len(string)
    /\ tpc' = "returned"
    /\ UNCHANGED <<string, enclosing, blank_sep, i, depth, groups, pieces, matchvars>>

\* lines 129-134: blank the delimiters, split on the spans
SplitGroups ==
    /\ tpc = "returned"
    /\ pieces' = split_on_groups(IF blank_sep THEN BlankDelimiters(string, groups)
                                 ELSE string, groups)
    /\ tpc' = "done"
    /\ UNCHANGED <<string, enclosing, blank_sep, i, depth, groups, matchvars>>

NextGroups == Scan \/ ReturnSpans \/ SplitGroups

SpecGroups == InitGroups /\ [][NextGroups]_vars

----------------------------------------------------------------------------
(* split_explicit_groups, lines 137-148. *)

RECURSIVE ReduceGroupsPrepend(_, _)
\* A variant of the reduce that puts the pieces of each element in front of
\* the accumulated list: lambda l, x: find_first_level_groups(x, enc) + l
ReduceGroupsPrepend(l, enc) ==
    IF l = <<>> THEN <<>>
    ELSE ReduceGroupsPrepend(Tail(l), enc)
         \o find_first_level_groups(Head(l), enc, TRUE)

RECURSIVE ReduceGroups(_, _)
\* lines 142-143:
\* reduce(lambda l, x: l + find_first_level_groups(x, enc), result, [])
ReduceGroups(l, enc) ==
    IF l = <<>> THEN <<>>
    ELSE find_first_level_groups(Head(l), enc, TRUE)
         \o ReduceGroups(Tail(l), enc)

ExplicitAlphabet == {"(", ")", "[", "]", "{", "}", "a"}

\* Strings with deeper or longer nesting than the enumerated ones reach.
ExplicitExamples ==
    { <<"(", "a", "[", "b", "]", "c", ")">>,
      <<"(", "a", "(", "b", ")", "c", ")">>,
      <<"(", "(", "a", ")", "[", "b", "]", ")">>,
      <<"[", "a", "(", "b", ")", "c", "]">>,
      <<"(", "[", "{", "a", "}", "]", ")">>,
      <<"[", "(", ")", "[", "a", "]", "]">>,
      <<"{", "a", "}", "(", "b", ")", "[", "c", "]">> }

ExplicitStrings == StringsUpTo(ExplicitAlphabet, MaxExplicitLen) \cup ExplicitExamples

\* The call split_explicit_groups(string).  `pieces` is the local `result`,
\* `enclosing` the argument of the next call of find_first_level_groups.
InitExplicit ==
    /\ string \in ExplicitStrings
    /\ enclosing = <<"(", ")">>
    /\ blank_sep = TRUE
    /\ i = 0
    /\ depth = <<>>
    /\ groups = <<>>
    /\ pieces = <<>>
    /\ tpc = "parens"
    /\ explicit_group = <<>>
    /\ current = <<>>
    /\ regions = <<>>
    /\ spans = <<>>
    /\ result = <<>>
    /\ entry = <<>>
    /\ pidx = 0
    /\ gidx = 0
    /\ ngroups = 0
    /\ raised = ""
    /\ pc = "idle"

\* line 141: result = find_first_level_groups(string, '()')
SplitParens ==
    /\ tpc = "parens"
    /\ pieces' = find_first_level_groups(string, enclosing, blank_sep)
    /\ enclosing' = <<"[", "]">>
    /\ tpc' = "squares"
    /\ UNCHANGED <<string, blank_sep, i, depth, groups, matchvars>>

\* line 142: every piece is split again on '[]'
SplitSquares ==
    /\ tpc = "squares"
    /\ pieces' = ReduceGroups(pieces, enclosing)
    /\ enclosing' = <<"{", "}">>
    /\ tpc' = "curlies"
    /\ UNCHANGED <<string, blank_sep, i, depth, groups, matchvars>>

\* lines 143-148: every piece is split again on '{}', the list is returned
SplitCurlies ==
    /\ tpc = "curlies"
    /\ pieces' = ReduceGroups(pieces, enclosing)
    /\ tpc' = "split"
    /\ UNCHANGED <<string, enclosing, blank_sep, i, depth, groups, matchvars>>

NextExplicit == SplitParens \/ SplitSquares \/ SplitCurlies

SpecExplicit == InitExplicit /\ [][NextExplicit]_vars

----------------------------------------------------------------------------
(* Characters and the regular expressions of the rule tables. *)

Digits == {"0", "1", "2", "3", "4", "5", "6", "7", "8", "9"}

ToLower ==
    [A |-> "a", B |-> "b", C |-> "c", D |-> "d", E |-> "e", F |-> "f", G |-> "g",
     H |-> "h", I |-> "i", J |-> "j", K |-> "k", L |-> "l", M |-> "m", N |-> "n",
     O |-> "o", P |-> "p", Q |-> "q", R |-> "r", S |-> "s", T |-> "t", U |-> "u",
     V |-> "v", W |-> "w", X |-> "x", Y |-> "y", Z |-> "z"]

\* c.lower() for one character
LowerChar(c) == IF c \in DOMAIN ToLower THEN ToLower[c] ELSE c

\* string.lower()
Lower(s) == [k \in 1..Len(s) |-> LowerChar(s[k])]

\* line 169, read as a regular expression: the class [][)(}{ \._-]
SepClass == {"]", "[", ")", "(", "}", "{", " ", ".", "_", "-"}

\* line 169, read as a Python string (line 322 tests `c in sep`): the
\* characters of r'[][)(}{ \._-]', the backslash among them
sep == <<"[", "]", "[", ")", "(", "}", "{", " ", "\\", ".", "_", "-", "]">>

InSep(c) == \E k \in 1..Len(sep) : sep[k] = c

\* An element of a pattern: a character class (negated or not, given in
\* lower case since every search uses re.IGNORECASE) repeated lo..hi times;
\* hi = -1 stands for no upper limit.
Elem(neg, chars, lo, hi, greedy) ==
    [neg |-> neg, chars |-> chars, lo |-> lo, hi |-> hi, greedy |-> greedy]

Lit(c) == Elem(FALSE, {c}, 1, 1, TRUE)

Word(w) == [k \in 1..Len(w) |-> Lit(w[k])]

SepElem == Elem(FALSE, SepClass, 1, 1, TRUE)

NonDigit == Elem(TRUE, Digits, 1, 1, TRUE)

\* the character c matches element e under re.IGNORECASE
Matches(e, c) == (LowerChar(c) \in e.chars) # e.neg

\* how many characters from index pos on element e can take at most
RunLength(e, s, pos) ==
    LET cap == IF e.hi < 0 THEN Len(s) - pos ELSE Min(e.hi, Len(s) - pos)
        bad == {m \in 1..cap : ~Matches(e, s[pos + m])}
    IN  IF bad = {} THEN Max(cap, 0)
        ELSE (CHOOSE m \in bad : \A m2 \in bad : m <= m2) - 1

RECURSIVE MatchFrom(_, _, _, _), MatchCount(_, _, _, _, _, _)
\* The backtracking match of elements k.. of elems at index pos of s, in
\* the order Python's re tries the alternatives (greedy: longest first,
\* lazy: shortest first).  ends[j] is the index after element k+j-1.
MatchFrom(elems, k, s, pos) ==
    IF k > Len(elems) THEN [ok |-> TRUE, ends |-> <<>>]
    ELSE LET e     == elems[k]
             avail == RunLength(e, s, pos)
         IN  IF avail < e.lo THEN [ok |-> FALSE, ends |-> <<>>]
             ELSE MatchCount(elems, k, s, pos,
                             IF e.greedy THEN avail ELSE e.lo, avail)

MatchCount(elems, k, s, pos, n, avail) ==
    LET e == elems[k]
        r == MatchFrom(elems, k + 1, s, pos + n)
    IN  IF r.ok THEN [ok |-> TRUE, ends |-> <<pos + n>> \o r.ends]
        ELSE IF e.greedy
             THEN (IF n > e.lo THEN MatchCount(elems, k, s, pos, n - 1, avail)
                   ELSE [ok |-> FALSE, ends |-> <<>>])
             ELSE (IF n < avail THEN MatchCount(elems, k, s, pos, n + 1, avail)
                   ELSE [ok |-> FALSE, ends |-> <<>>])

RECURSIVE SearchFrom(_, _, _)
SearchFrom(elems, s, pos) ==
    IF pos > Len(s) THEN [found |-> FALSE, start |-> 0, ends |-> <<>>]
    ELSE LET m == MatchFrom(elems, 1, s, pos)
         IN  IF m.ok THEN [found |-> TRUE, start |-> pos, ends |-> m.ends]
             ELSE SearchFrom(elems, s, pos + 1)

\* re.search(rexp, s, re.IGNORECASE): the leftmost match
Search(pat, s) == SearchFrom(pat.elems, s, 0)

\* match.span()
SpanOf(m) == <<m.start, IF m.ends = <<>> THEN m.start ELSE m.ends[Len(m.ends)]>>

\* the text of the group made of elements first..last of the pattern
GroupText(m, s, first, last) ==
    Slice(s, IF first = 1 THEN m.start ELSE m.ends[first - 1], m.ends[last])

\* match.groupdict()
GroupDict(pat, m, s) ==
    [n \in {pat.names[k].name : k \in 1..Len(pat.names)} |->
        LET g == CHOOSE k \in 1..Len(pat.names) : pat.names[k].name = n
        IN  GroupText(m, s, pat.names[g].first, pat.names[g].last)]

Named(n, first, last) == [name |-> n, first |-> first, last |-> last]

\* lines 172-187; confidence in tenths
episodes_rexps ==
    << \* season (?P<season>[0-9]+)
       [elems |-> Word(<<"s", "e", "a", "s", "o", "n", " ">>)
                    \o <<Elem(FALSE, Digits, 1, -1, TRUE)>>,
        names |-> <<Named("season", 8, 8)>>,
        confidence |-> 10, span_adjust |-> <<0, 0>>],
       \* saison (?P<season>[0-9]+)
       [elems |-> Word(<<"s", "a", "i", "s", "o", "n", " ">>)
                    \o <<Elem(FALSE, Digits, 1, -1, TRUE)>>,
        names |-> <<Named("season", 8, 8)>>,
        confidence |-> 10, span_adjust |-> <<0, 0>>],
       \* [Ss](?P<season>[0-9]{1,2}).{,3}[EeXx](?P<episodeNumber>[0-9]{1,2})[^0-9]
       [elems |-> <<Lit("s"),
                    Elem(FALSE, Digits, 1, 2, TRUE),
                    Elem(TRUE, {"\n"}, 0, 3, TRUE),
                    Elem(FALSE, {"e", "x"}, 1, 1, TRUE),
                    Elem(FALSE, Digits, 1, 2, TRUE),
                    NonDigit>>,
        names |-> <<Named("season", 2, 2), Named("episodeNumber", 5, 5)>>,
        confidence |-> 10, span_adjust |-> <<0, -1>>],
       \* [^0-9](?P<season>[0-9]{1,2})[x\.](?P<episodeNumber>[0-9]{2})[^0-9]
       [elems |-> <<NonDigit,
                    Elem(FALSE, Digits, 1, 2, TRUE),
                    Elem(FALSE, {"x", "."}, 1, 1, TRUE),
                    Elem(FALSE, Digits, 2, 2, TRUE),
                    NonDigit>>,
        names |-> <<Named("season", 2, 2), Named("episodeNumber", 4, 4)>>,
        confidence |-> 8, span_adjust |-> <<1, -1>>],
       \* sep + s(?P<season>[0-9]{1,2}) + sep
       [elems |-> <<SepElem, Lit("s"), Elem(FALSE, Digits, 1, 2, TRUE), SepElem>>,
        names |-> <<Named("season", 3, 3)>>,
        confidence |-> 6, span_adjust |-> <<0, 0>>],
       \* sep + (?P<episodeNumber>[0-9]{1,3})v[23] + sep
       [elems |-> <<SepElem, Elem(FALSE, Digits, 1, 3, TRUE), Lit("v"),
                    Elem(FALSE, {"2", "3"}, 1, 1, TRUE), SepElem>>,
        names |-> <<Named("episodeNumber", 2, 2)>>,
        confidence |-> 6, span_adjust |-> <<0, 0>>] >>

\* lines 189-191
weak_episodes_rexps ==
    << \* sep + (?P<episodeNumber>[0-9]{1,3}) + sep
       [elems |-> <<SepElem, Elem(FALSE, Digits, 1, 3, TRUE), SepElem>>,
        names |-> <<Named("episodeNumber", 2, 2)>>,
        confidence |-> 3, span_adjust |-> <<1, -1>>] >>

\* sep + (codec)-(?P<releaseGroup>.*?)[ \.]
GroupNameRexp(codec) ==
    [elems |-> <<SepElem>> \o Word(codec)
                 \o <<Lit("-"),
                      Elem(TRUE, {"\n"}, 0, -1, FALSE),
                      Elem(FALSE, {" ", "."}, 1, 1, TRUE)>>,
     names |-> <<Named("releaseGroup", Len(codec) + 3, Len(codec) + 3)>>,
     codec |-> <<2, Len(codec) + 1>>,
     confidence |-> 10, span_adjust |-> <<1, -1>>]

\* lines 300-303
group_names ==
    << GroupNameRexp(<<"x", "v", "i", "d">>),
       GroupNameRexp(<<"d", "i", "v", "x">>),
       GroupNameRexp(<<"d", "v", "d", "i", "v", "x">>) >>

\* lines 197-221, the (property, value) pairs in the order in which
\* `for prop, values in properties.items(): for value in values` visits
\* them: CPython 2 iterates this dict as releaseGroup, website, videoCodec,
\* container, screenSize, format, other, audioCodec (its string hash puts
\* the eight keys in that slot order on 32-bit and 64-bit builds alike).
properties ==
    <<
       [prop |-> "releaseGroup", value |-> <<"E", "S", "i", "R">>],
       [prop |-> "releaseGroup", value |-> <<"W", "A", "F">>],
       [prop |-> "releaseGroup", value |-> <<"S", "E", "P", "T", "i", "C">>],
       [prop |-> "releaseGroup", value |-> <<"[", "X", "C", "T", "]">>],
       [prop |-> "releaseGroup", value |-> <<"i", "N", "T">>],
       [prop |-> "releaseGroup", value |-> <<"P", "U", "K", "K", "A">>],
       [prop |-> "releaseGroup", value |-> <<"C", "H", "D">>],
       [prop |-> "releaseGroup", value |-> <<"V", "i", "T", "E">>],
       [prop |-> "releaseGroup", value |-> <<"D", "i", "A", "M", "O", "N", "D">>],
       [prop |-> "releaseGroup", value |-> <<"T", "L", "F">>],
       [prop |-> "releaseGroup", value |-> <<"D", "E", "i", "T", "Y">>],
       [prop |-> "releaseGroup", value |-> <<"F", "L", "A", "i", "T", "E">>],
       [prop |-> "releaseGroup", value |-> <<"M", "D", "X">>],
       [prop |-> "releaseGroup", value |-> <<"G", "M", "4", "F">>],
       [prop |-> "releaseGroup", value |-> <<"D", "V", "L">>],
       [prop |-> "releaseGroup", value |-> <<"S", "V", "D">>],
       [prop |-> "releaseGroup", value |-> <<"i", "L", "U", "M", "i", "N", "A", "D", "O", "S">>],
       [prop |-> "releaseGroup", value |-> <<" ", "F", "i", "N", "a", "L", "e">>],
       [prop |-> "releaseGroup", value |-> <<"U", "n", "S", "e", "e", "N">>],
       [prop |-> "releaseGroup", value |-> <<"a", "X", "X", "o">>],
       [prop |-> "releaseGroup", value |-> <<"K", "L", "A", "X", "X", "O", "N">>],
       [prop |-> "releaseGroup", value |-> <<"N", "o", "T", "V">>],
       [prop |-> "website", value |-> <<"t", "v", "u", ".", "o", "r", "g", ".", "r", "u">>],
       [prop |-> "website", value |-> <<"e", "m", "u", "l", "e", "-", "i", "s", "l", "a", "n", "d", ".", "c", "o", "m">>],
       [prop |-> "videoCodec", value |-> <<"X", "v", "i", "D">>],
       [prop |-> "videoCodec", value |-> <<"D", "i", "v", "X">>],
       [prop |-> "videoCodec", value |-> <<"x", "2", "6", "4">>],
       [prop |-> "videoCodec", value |-> <<"R", "v", "1", "0">>],
       [prop |-> "container", value |-> <<"a", "v", "i">>],
       [prop |-> "container", value |-> <<"m", "k", "v">>],
       [prop |-> "container", value |-> <<"o", "g", "v">>],
       [prop |-> "container", value |-> <<"w", "m", "v">>],
       [prop |-> "container", value |-> <<"m", "p", "4">>],
       [prop |-> "container", value |-> <<"m", "o", "v">>],
       [prop |-> "screenSize", value |-> <<"7", "2", "0", "p">>],
       [prop |-> "format", value |-> <<"D", "V", "D", "R", "i", "p">>],
       [prop |-> "format", value |-> <<"H", "D", "-", "D", "V", "D">>],
       [prop |-> "format", value |-> <<"H", "D", "D", "V", "D">>],
       [prop |-> "format", value |-> <<"H", "D", "D", "V", "D", "R", "i", "p">>],
       [prop |-> "format", value |-> <<"B", "l", "u", "R", "a", "y">>],
       [prop |-> "format", value |-> <<"B", "D", "R", "i", "p">>],
       [prop |-> "format", value |-> <<"R", "5">>],
       [prop |-> "format", value |-> <<"H", "D", "R", "i", "p">>],
       [prop |-> "format", value |-> <<"D", "V", "D">>],
       [prop |-> "format", value |-> <<"R", "i", "p">>],
       [prop |-> "format", value |-> <<"H", "D", "T", "V">>],
       [prop |-> "format", value |-> <<"D", "V", "B">>],
       [prop |-> "other", value |-> <<"5", "c", "h">>],
       [prop |-> "other", value |-> <<"P", "R", "O", "P", "E", "R">>],
       [prop |-> "other", value |-> <<"R", "E", "P", "A", "C", "K">>],
       [prop |-> "other", value |-> <<"L", "I", "M", "I", "T", "E", "D">>],
       [prop |-> "other", value |-> <<"D", "u", "a", "l", "A", "u", "d", "i", "o">>],
       [prop |-> "other", value |-> <<"i", "N", "T", "E", "R", "N", "A", "L">>],
       [prop |-> "other", value |-> <<"A", "u", "d", "i", "o", "f", "i", "x", "e", "d">>],
       [prop |-> "other", value |-> <<"c", "o", "m", "p", "l", "e", "t", "e">>],
       [prop |-> "other", value |-> <<"c", "l", "a", "s", "s", "i", "c">>],
       [prop |-> "other", value |-> <<"w", "s">>],
       [prop |-> "other", value |-> <<"S", "E">>],
       [prop |-> "audioCodec", value |-> <<"A", "C", "3">>],
       [prop |-> "audioCodec", value |-> <<"D", "T", "S">>],
       [prop |-> "audioCodec", value |-> <<"H", "e", "-", "A", "A", "C">>],
       [prop |-> "audioCodec", value |-> <<"A", "A", "C", "-", "H", "e">>],
       [prop |-> "audioCodec", value |-> <<"A", "A", "C">>]
    >>

\* lines 223-233
reverse_synonyms ==
    {
       [synonym |-> <<"d", "v", "d", "r", "i", "p">>, canonical |-> <<"D", "V", "D">>],
       [synonym |-> <<"h", "d", "d", "v", "d">>, canonical |-> <<"H", "D", "-", "D", "V", "D">>],
       [synonym |-> <<"h", "d", "d", "v", "d", "r", "i", "p">>, canonical |-> <<"H", "D", "-", "D", "V", "D">>],
       [synonym |-> <<"b", "d", "r", "i", "p">>, canonical |-> <<"B", "l", "u", "R", "a", "y">>],
       [synonym |-> <<"d", "v", "d", "i", "v", "x">>, canonical |-> <<"D", "i", "v", "X">>]
    }

\* lines 235-236
canonical_form(s) ==
    IF \E r \in reverse_synonyms : r.synonym = Lower(s)
    THEN (CHOOSE r \in reverse_synonyms : r.synonym = Lower(s)).canonical
    ELSE s

RECURSIVE ToInt(_)
\* int(text) for a text of decimal digits
ToInt(ds) ==
    IF ds = <<>> THEN 0
    ELSE LET d == ds[Len(ds)]
             v == CHOOSE n \in 0..9 :
                     <<"0", "1", "2", "3", "4", "5", "6", "7", "8", "9">>[n + 1] = d
         IN  10 * ToInt(SubSeq(ds, 1, Len(ds) - 1)) + v

\* lines 151-164
format_episode_guess(guess) ==
    [k \in DOMAIN guess |->
        IF k \in {"season", "episodeNumber", "year"} THEN ToInt(guess[k])
        ELSE guess[k]]

\* lines 252-256: the Guess appended to result
guessed(match_dict, confidence) ==
    [guess |-> format_episode_guess(match_dict), confidence |-> confidence]

\* lines 240-241
blank_region(s, region) ==
    Slice(s, 0, region[1]) \o Repeat(deleted, region[2] - region[1])
        \o Slice(s, region[2], Len(s))

\* s.find(sub, from): the first index >= from where sub occurs, or -1
Find(s, sub, from) ==
    LET n  == Len(sub)
        at == {p \in from..(Len(s) - n) : \A j \in 1..n : s[p + j] = sub[j]}
    IN  IF at = {} THEN -1 ELSE CHOOSE p \in at : \A q \in at : p <= q

----------------------------------------------------------------------------
(* The rule passes of IterativeMatcher.__init__, lines 270-369. *)

\* lines 279-283: the adjusted span and the blanked string
update_found(s, span, span_adjust) ==
    LET sp == <<span[1] + span_adjust[1], span[2] + span_adjust[2]>>
    IN  [span |-> sp, string |-> blank_region(s, sp)]

\* The working state a pass reads and writes.
PassState == [current |-> current, regions |-> regions, spans |-> spans,
              result |-> result, raised |-> raised]

\* One match recorded: the evidence, the region, the blanked string.
Record(st, by, span, span_adjust, match_dict, confidence) ==
    LET u == update_found(st.current, span, span_adjust)
    IN  [current |-> u.string,
         regions |-> Append(st.regions, u.span),
         spans   |-> Append(st.spans, [by |-> by, span |-> span]),
         result  |-> Append(st.result, guessed(match_dict, confidence)),
         raised  |-> st.raised]

\* lines 307-308: the groupdict plus the canonical codec name
WithCodec(gd, codec) ==
    [n \in DOMAIN gd \cup {"videoCodec"} |->
        IF n = "videoCodec" THEN canonical_form(codec) ELSE gd[n]]

\* lines 293-297, 305-310, 334-338: one rule of a table
ApplyRexp(st, pat, by) ==
    LET m == Search(pat, st.current)
    IN  IF ~m.found THEN st
        ELSE LET gd == GroupDict(pat, m, st.current)
                 md == IF by = "group_names"
                       THEN WithCodec(gd, GroupText(m, st.current,
                                                    pat.codec[1], pat.codec[2]))
                       ELSE gd
             IN  Record(st, by, SpanOf(m), pat.span_adjust, md, pat.confidence)

RECURSIVE ApplyRexps(_, _, _, _)
\* the rules k.. of a table, in order
ApplyRexps(st, rexps, k, by) ==
    IF k > Len(rexps) THEN st
    ELSE ApplyRexps(ApplyRexp(st, rexps[k], by), rexps, k + 1, by)

\* value.lower() for every value of the table
lower_values == [k \in 1..Len(properties) |-> Lower(properties[k].value)]

RECURSIVE ApplyProperties(_, _, _)
\* lines 316-329: the known values k.. of the table, in order; clow is
\* current.lower(), renewed after every accepted hit (line 329)
ApplyProperties(st, clow, k) ==
    IF k > Len(properties) \/ st.raised # "" THEN st
    ELSE LET v   == properties[k]
             pos == Find(clow, lower_values[k], 0)
             end == pos + Len(v.value)
         IN  IF pos = -1 THEN ApplyProperties(st, clow, k + 1)
             ELSE IF ~InSep(At(clow, pos - 1)) THEN ApplyProperties(st, clow, k + 1)
             \* clow[end] past the end of the string
             ELSE IF end >= Len(clow) THEN [st EXCEPT !.raised = "IndexError"]
             ELSE IF ~InSep(At(clow, end)) THEN ApplyProperties(st, clow, k + 1)
             ELSE LET st2 == Record(st, "properties", <<pos, end>>, <<0, 0>>,
                                    [n \in {v.prop} |-> canonical_form(v.value)], 10)
                  IN  ApplyProperties(st2, Lower(st2.current), k + 1)

\* A variant of the test of line 332 that asks for the key 'episode'.
HasEpisodeNumberWrongKey(res) ==
    \E k \in 1..Len(res) : "episode" \in DOMAIN res[k].guess

\* line 332: any('episodeNumber' in match for match in result)
HasEpisodeNumber(res) ==
    \E k \in 1..Len(res) : "episodeNumber" \in DOMAIN res[k].guess

RECURSIVE DashSpans(_, _)
\* lines 360-363
DashSpans(cur, didx) ==
    IF didx > 0
    THEN <<<<didx, didx>>>> \o DashSpans(cur, Find(cur, <<"-">>, didx + 1))
    ELSE <<>>

\* zip(a, b)
Zip(a, b) == [k \in 1..Min(Len(a), Len(b)) |-> <<a[k], b[k]>>]

\* guessit.date.search_date and guessit.language.search_language are not
\* part of matcher.py; they are taken to report no match.
search_date(s) == [found |-> FALSE, value |-> <<>>, span |-> <<0, 0>>]

search_language(s) ==
    [found |-> FALSE, value |-> <<>>, span |-> <<0, 0>>, confidence |-> 0]

----------------------------------------------------------------------------
(* Inputs of the matcher: explicit groups made of a few tokens. *)

Vocabulary ==
    { <<"s", "1">>, <<"E", "1">>, <<"S", "E">>, <<"1", "1">>, <<"v", "2">>,
      <<"x">>, <<"x", "v", "i", "d">>, <<"-">>, <<" ">>, <<".">>, <<"_">>,
      <<"\\">>, <<"a">>, <<"s", "e", "a", "s", "o", "n", " ">>,
      <<"f", "i", "n", "a", "l", "e">> }

RunVocabulary ==
    { <<"s", "1", "E", "1">>, <<"1", "1">>, <<"1", "1", "v", "2">>,
      <<"S", "E">>, <<"a">> }

TokenGroups(V, n) == {Concat(ts) : ts \in StringsUpTo(V, n)}

\* line 261: the extension is the first evidence of every run
InitialResult == <<guessed([extension |-> <<"a", "v", "i">>], 10)>>

InitMatch(G) ==
    /\ explicit_group \in G
    /\ current = <<>>
    /\ regions = <<>>
    /\ spans = <<>>
    /\ result = InitialResult
    /\ entry = <<>>
    /\ pidx = 0
    /\ gidx = 0
    /\ ngroups = 0
    /\ raised = ""
    /\ pc = "pad"
    /\ string = <<>>
    /\ enclosing = <<"(", ")">>
    /\ blank_sep = TRUE
    /\ i = 0
    /\ depth = <<>>
    /\ groups = <<>>
    /\ pieces = <<>>
    /\ tpc = "idle"

InitMatcher == InitMatch(TokenGroups(Vocabulary, MaxTokens))

InitRun == InitMatch(TokenGroups(RunVocabulary, MaxRunTokens))

\* what a pass leaves alone
Frame == UNCHANGED <<explicit_group, entry, pidx, gidx, ngroups, tokvars>>

\* lines 275-277: add the sentinels, start with no region
Pad ==
    /\ pc = "pad"
    /\ current' = <<" ">> \o explicit_group \o <<" ">>
    /\ regions' = <<>>
    /\ spans' = <<>>
    /\ pc' = "date"
    /\ UNCHANGED <<result, raised>>
    /\ Frame

\* what a pass that ran to st leaves in the variables
Becomes(st) ==
    /\ current' = st.current
    /\ regions' = st.regions
    /\ spans' = st.spans
    /\ result' = st.result
    /\ raised' = st.raised

\* lines 286-289
DatePass ==
    /\ pc = "date"
    /\ LET d == search_date(current)
       IN  Becomes(IF d.found
                   THEN Record(PassState, "date", d.span, <<0, 0>>,
                               [date |-> d.value], 10)
                   ELSE PassState)
    /\ pc' = "episodes"
    /\ Frame

\* lines 292-297
EpisodesPass ==
    /\ pc = "episodes"
    /\ Becomes(ApplyRexps(PassState, episodes_rexps, 1, "episodes"))
    /\ pc' = "group_names"
    /\ Frame

\* lines 300-310
GroupNamesPass ==
    /\ pc = "group_names"
    /\ Becomes(ApplyRexps(PassState, group_names, 1, "group_names"))
    /\ pc' = "properties"
    /\ Frame

\* lines 314-329
PropertiesPass ==
    /\ pc = "properties"
    /\ LET st == ApplyProperties(PassState, Lower(current), 1)
       IN  /\ Becomes(st)
           /\ pc' = IF st.raised # "" THEN "failed" ELSE "weak"
    /\ Frame

\* lines 332-338
WeakEpisodesPass ==
    /\ pc = "weak"
    /\ Becomes(IF ~HasEpisodeNumber(result)
               THEN ApplyRexps(PassState, weak_episodes_rexps, 1, "weak")
               ELSE PassState)
    /\ pc' = "language"
    /\ Frame

\* lines 341-350
LanguagePass ==
    /\ pc = "language"
    /\ LET l == search_language(current)
       IN  Becomes(IF l.found
                   THEN Record(PassState, "language", l.span, <<0, 0>>,
                               [language |-> l.value], l.confidence)
                   ELSE PassState)
    /\ pc' = "strip"
    /\ Frame

\* lines 354-356: the assertion, then the sentinels go and the spans shift
StripSentinels ==
    /\ pc = "strip"
    /\ IF At(current, 0) = " " /\ At(current, -1) = " "
       THEN /\ current' = Slice(current, 1, -1)
            /\ regions' = [k \in 1..Len(regions) |->
                              <<regions[k][1] - 1, regions[k][2] - 1>>]
            /\ raised' = raised
            /\ pc' = "dash"
       ELSE /\ raised' = "AssertionError"
            /\ pc' = "failed"
            /\ UNCHANGED <<current, regions>>
    /\ UNCHANGED <<spans, result>>
    /\ Frame

\* lines 360-363
DashScan ==
    /\ pc = "dash"
    /\ regions' = regions \o DashSpans(current, Find(current, <<"-">>, 0))
    /\ pc' = "split"
    /\ UNCHANGED <<current, spans, result, raised>>
    /\ Frame

\* lines 365-369
StoreSubgroups ==
    /\ pc = "split"
    /\ entry' = Zip(split_on_groups(explicit_group, regions),
                    split_on_groups(current, regions))
    /\ ngroups' = ngroups + 1
    /\ pc' = "done"
    /\ UNCHANGED <<explicit_group, current, regions, spans, result, raised,
                   pidx, gidx, tokvars>>

\* lines 270-271: the next explicit group, of this path part or of the next
NextGroup ==
    /\ pc = "done"
    /\ ngroups < MaxGroups
    /\ \E g \in TokenGroups(RunVocabulary, MaxRunTokens) : \E newpart \in BOOLEAN :
          /\ explicit_group' = g
          /\ pidx' = IF newpart THEN pidx + 1 ELSE pidx
          /\ gidx' = IF newpart THEN 0 ELSE gidx + 1
    /\ pc' = "pad"
    /\ UNCHANGED <<current, regions, spans, result, entry, ngroups, raised, tokvars>>

NextMatcher ==
    \/ Pad
    \/ DatePass
    \/ EpisodesPass
    \/ GroupNamesPass
    \/ PropertiesPass
    \/ WeakEpisodesPass
    \/ LanguagePass
    \/ StripSentinels
    \/ DashScan
    \/ StoreSubgroups

NextRun == NextMatcher \/ NextGroup

\* one explicit group, over the whole vocabulary
SpecMatcher == InitMatcher /\ [][NextMatcher]_vars

\* several explicit groups of one filename, sharing result
SpecRun == InitRun /\ [][NextRun]_vars

----------------------------------------------------------------------------
(* Claims about the tokenizer, checked under SpecGroups. *)

\* number of Python indices in a..b of s that hold character c
CountIn(s, c, a, b) == Cardinality({k \in a..b : s[k + 1] = c})

\* The indices at which the bracket opened at index o could close: the
\* closers that bring the balance of s[o+1..j] to -1.
ClosingCandidates(s, enc, o) ==
    {j \in (o + 1)..(Len(s) - 1) :
        /\ s[j + 1] = enc[2]
        /\ CountIn(s, enc[2], o + 1, j) = CountIn(s, enc[1], o + 1, j) + 1}

HasCloser(s, enc, o) == ClosingCandidates(s, enc, o) # {}

CloserOf(s, enc, o) ==
    CHOOSE j \in ClosingCandidates(s, enc, o) :
        \A j2 \in ClosingCandidates(s, enc, o) : j <= j2

\* The opener at index o lies inside a bracket that is still open at o.
Enclosed(s, enc, o) ==
    \E k \in 0..(o - 1) :
        /\ s[k + 1] = enc[1]
        /\ (~HasCloser(s, enc, k) \/ CloserOf(s, enc, k) > o)

\* The top-level bracketed groups of s, as half-open spans.
TopLevelGroups(s, enc) ==
    {<<o, CloserOf(s, enc, o) + 1>> :
        o \in {k \in 0..(Len(s) - 1) :
                 /\ s[k + 1] = enc[1]
                 /\ HasCloser(s, enc, k)
                 /\ ~Enclosed(s, enc, k)}}

\* C1: the spans returned are exactly the top-level bracketed groups, each
\* from an opening character to just after a closing character, in
\* left-to-right order of their closing character and never nested.
C1_TopLevelSpans ==
    tpc # "scan" =>
        /\ {groups[k] : k \in 1..Len(groups)} = TopLevelGroups(string, enclosing)
        /\ Len(groups) = Cardinality(TopLevelGroups(string, enclosing))
        /\ \A k \in 1..Len(groups) :
              /\ string[groups[k][1] + 1] = enclosing[1]
              /\ string[groups[k][2]] = enclosing[2]
        /\ \A k \in 1..Len(groups) : \A l \in 1..Len(groups) :
              k < l => groups[k][2] <= groups[l][1]

\* C1 witness: a returned span that holds a nested opener of the same kind.
C1_Witness ==
    /\ tpc = "done"
    /\ \E k \in 1..Len(groups) : \E p \in (groups[k][1] + 1)..(groups[k][2] - 2) :
          string[p + 1] = enclosing[1]

\* C5: with the delimiters left in place, the fragments of split_on_groups
\* concatenate to the original string.
C5_RoundTrip ==
    (tpc = "done" /\ ~blank_sep) => Concat(pieces) = string

\* C5 witness: a string split into outside and inside fragments.
C5_Witness ==
    /\ tpc = "done"
    /\ ~blank_sep
    /\ Len(groups) >= 1
    /\ Len(pieces) >= 3

RECURSIVE DocstringPieces(_, _, _)
\* The pieces the docstring of find_first_level_groups shows: the non-empty
\* text outside the groups and the interior of each group, delimiters removed.
DocstringPieces(s, gs, from) ==
    IF gs = <<>>
    THEN (IF from < Len(s) THEN <<Slice(s, from, Len(s))>> ELSE <<>>)
    ELSE LET g == Head(gs)
         IN  (IF from < g[1] THEN <<Slice(s, from, g[1])>> ELSE <<>>)
             \o <<Slice(s, g[1] + 1, g[2] - 1)>>
             \o DocstringPieces(s, Tail(gs), g[2])

\* C6: with the default blanking, the pieces are the outside text and the
\* interior of each top-level group with the two delimiters removed.
C6_DelimitersRemoved ==
    (tpc = "done" /\ blank_sep) =>
        pieces = (IF groups = <<>> THEN <<string>>
                  ELSE DocstringPieces(string, groups, 0))

\* the string without the character at Python index p
RemoveAt(s, p) == Slice(s, 0, p) \o Slice(s, p + 1, Len(s))

\* the index in s of the character at index q of RemoveAt(s, p)
Unshift(q, p) == IF q < p THEN q ELSE q + 1

\* the spans of RemoveAt(s, p) as spans of s
UnshiftSpans(gs, p) ==
    [k \in 1..Len(gs) |-> <<Unshift(gs[k][1], p), Unshift(gs[k][2] - 1, p) + 1>>]

\* a closing character met at index p while the stack is empty
StrayCloser(s, enc, p) ==
    /\ s[p + 1] = enc[2]
    /\ ScanPrefix(s, enc, p).depth = <<>>

\* C7: a closing character met with an empty stack changes neither the stack
\* nor the result, the groups after it are reported as if it were absent,
\* and an opener that is never closed starts no span.
C7_LenientNesting ==
    tpc # "scan" =>
        /\ \A p \in 0..(Len(string) - 1) :
              StrayCloser(string, enclosing, p) =>
                 /\ ScanPrefix(string, enclosing, p + 1)
                       = ScanPrefix(string, enclosing, p)
                 /\ groups = UnshiftSpans(
                       find_first_level_groups_span(RemoveAt(string, p), enclosing), p)
        /\ \A d \in 1..Len(depth) : \A k \in 1..Len(groups) :
              groups[k][1] # depth[d]

\* C7 witness: a stray closer, a reported group after it, an unclosed opener.
C7_Witness ==
    /\ tpc = "done"
    /\ depth # <<>>
    /\ \E p \in 0..(Len(string) - 1) :
          /\ StrayCloser(string, enclosing, p)
          /\ \E k \in 1..Len(groups) : groups[k][1] > p

----------------------------------------------------------------------------
(* Claims about split_explicit_groups, checked under SpecExplicit. *)

\* the pieces a set of cut positions leaves, as half-open spans
SegmentsOf(C) ==
    {seg \in C \X C :
        /\ seg[1] < seg[2]
        /\ ~\E c \in C : seg[1] < c /\ c < seg[2]}

\* the top-level groups of one kind inside each segment, as spans of s
GroupsIn(s, C, enc) ==
    UNION {{<<seg[1] + g[1], seg[1] + g[2]>> :
               g \in TopLevelGroups(Slice(s, seg[1], seg[2]), enc)} :
           seg \in SegmentsOf(C)}

Ends(G) == {g[1] : g \in G} \cup {g[2] : g \in G}

\* The groups each of the three rounds consumes, as spans of the argument:
\* the top-level '()' groups of the string, then the top-level '[]' groups of
\* each segment these leave, then the top-level '{}' groups of each segment.
ConsumedGroups(s) ==
    LET C0 == {0, Len(s)}
        G1 == GroupsIn(s, C0, <<"(", ")">>)
        C1 == C0 \cup Ends(G1)
        G2 == GroupsIn(s, C1, <<"[", "]">>)
        C2 == C1 \cup Ends(G2)
        G3 == GroupsIn(s, C2, <<"{", "}">>)
    IN  [parens |-> G1, squares |-> G2, curlies |-> G3]

\* The argument cut at the delimiters of the consumed groups, each delimiter
\* overwritten with `deleted`.
ExpectedPieces(s) ==
    IF s = <<>> THEN << <<>> >>
    ELSE LET cg      == ConsumedGroups(s)
             G       == cg.parens \cup cg.squares \cup cg.curlies
             B       == {g[1] : g \in G} \cup {g[2] - 1 : g \in G}
             blanked == [k \in 1..Len(s) |-> IF (k - 1) \in B THEN deleted ELSE s[k]]
             cs      == SortedSeq({0, Len(s)} \cup Ends(G))
         IN  [k \in 1..(Len(cs) - 1) |-> Slice(blanked, cs[k], cs[k + 1])]

\* the positions of the argument at which a list of pieces starts or ends
CutsOf(ps) == {Len(Concat(SubSeq(ps, 1, k))) : k \in 0..Len(ps)}

----------------------------------------------------------------------------
(* Claims about the rule passes of one explicit group, checked under       *)
(* SpecMatcher, and about a whole run, checked under SpecRun.              *)

\* the working string as padded by line 275, before any blanking
Padded == <<" ">> \o explicit_group \o <<" ">>

\* while regions and spans both index the padded working string
InPaddedPasses ==
    pc \in {"date", "episodes", "group_names", "properties", "weak",
            "language", "strip"}

\* the Python indices a half-open span covers
Covered(span) == span[1]..(span[2] - 1)

\* C2: matching one explicit group raises no error: when the passes are
\* over the working string still begins and ends with the sentinel space,
\* and every recorded span, shifted back by one, lies in [0, len(group)].
C2_NoFatalError ==
    /\ raised = ""
    /\ pc = "strip" =>
          /\ At(current, 0) = " "
          /\ At(current, -1) = " "
          /\ \A k \in 1..Len(regions) :
                /\ 0 <= regions[k][1] - 1
                /\ regions[k][2] - 1 <= Len(explicit_group)

\* C3: no evidence of the weak episode rule (confidence 0.3) is appended
\* to result after an evidence item that contains episodeNumber.
C3_WeakOnlyWithoutEpisode ==
    \A j \in 1..Len(result) :
        result[j].confidence = 3 =>
            \A k \in 1..(j - 1) : "episodeNumber" \notin DOMAIN result[k].guess

\* C3 witness: in a later path part, the weak pattern matches the working
\* string after its pass, and was held back by episodeNumber evidence of
\* an earlier group.
C3_Witness ==
    /\ pc = "language"
    /\ pidx > 0
    /\ HasEpisodeNumber(result)
    /\ Search(weak_episodes_rexps[1], current).found

\* C4: every known-value hit that was accepted stands, in the group's
\* original text, between separator characters or string edges.
C4_ValueBetweenSeparators ==
    InPaddedPasses =>
        \A k \in 1..Len(spans) :
            spans[k].by = "properties" =>
                LET pos == spans[k].span[1]
                    end == spans[k].span[2]
                IN  /\ (pos <= 1 \/ At(Padded, pos - 1) \in SepClass)
                    /\ (end >= Len(Padded) - 1 \/ At(Padded, end) \in SepClass)

\* C8: the spans recorded by the rule passes of one group, after their
\* adjustment, never overlap.
C8_SpansDisjoint ==
    InPaddedPasses =>
        \A j \in 1..Len(regions) : \A k \in 1..Len(regions) :
            j < k => Covered(regions[j]) \cap Covered(regions[k]) = {}

\* C9: no rule matches text that includes a character blanked before, be
\* it as content (an evidence value is part of the matched text) or as
\* its separator.
C9_NoMatchOverBlanked ==
    InPaddedPasses =>
        \A j \in 1..Len(regions) : \A k \in 1..Len(spans) :
            j < k => Covered(regions[j]) \cap Covered(spans[k].span) = {}

\* C10: when the partition is computed, every '-' of the leftover string is
\* recorded as a zero-width span.
C10_EveryDashRecorded ==
    pc \in {"split", "done"} =>
        \A d \in 0..(Len(current) - 1) :
            At(current, d) = "-" =>
                \E k \in 1..Len(regions) : regions[k] = <<d, d>>

====
